---- MODULE Spec2Model ----
(***************************************************************************)
(* Agent-based model of renewable adoption: Agent, ClimateModel and the    *)
(* neighbour network of climate_abm_with_uncertainties.py (the same code   *)
(* as enhanced_climate_abm.py).                                            *)
(*                                                                         *)
(* Python's float arithmetic is modelled as exact arithmetic on decimal    *)
(* numbers.  TLC's integers are 32 bits wide, too narrow for products such *)
(* as temperature ** 2 * cumulative_emissions, so a number is kept as a    *)
(* sign, a magnitude of base-10000 limbs (least significant first) and a   *)
(* count of limbs after the decimal point.  A quotient whose divisor is no *)
(* power of ten is kept as a fraction of two such numbers.                 *)
(***************************************************************************)
EXTENDS Integers, Sequences, FiniteSets, TLC

\* ------------------------------------------------------------------------
\* Exact arithmetic: magnitudes
\* ------------------------------------------------------------------------
Base == 10000

RECURSIVE NatStrip(_)
NatStrip(a) ==
    IF a = <<>> THEN <<>>
    ELSE IF a[Len(a)] = 0 THEN NatStrip(SubSeq(a, 1, Len(a) - 1))
    ELSE a

RECURSIVE NatFromInt(_)
NatFromInt(i) ==
    IF i = 0 THEN <<>> ELSE <<i % Base>> \o NatFromInt(i \div Base)

RECURSIVE NatAddC(_, _, _)
NatAddC(a, b, c) ==
    IF a = <<>> /\ b = <<>> THEN (IF c = 0 THEN <<>> ELSE <<c>>)
    ELSE IF b = <<>> /\ c = 0 THEN a
    ELSE IF a = <<>> /\ c = 0 THEN b
    ELSE LET x == (IF a = <<>> THEN 0 ELSE a[1]) + (IF b = <<>> THEN 0 ELSE b[1]) + c
         IN  <<x % Base>> \o NatAddC(IF a = <<>> THEN <<>> ELSE Tail(a),
                                     IF b = <<>> THEN <<>> ELSE Tail(b),
                                     x \div Base)

NatAdd(a, b) == NatAddC(a, b, 0)

\* a - b - c for a >= b + c, before the high zero limbs are dropped
RECURSIVE NatSubC(_, _, _)
NatSubC(a, b, c) ==
    IF b = <<>> /\ c = 0 THEN a
    ELSE LET x == a[1] - (IF b = <<>> THEN 0 ELSE b[1]) - c
         IN  <<(x + Base) % Base>> \o NatSubC(Tail(a),
                                               IF b = <<>> THEN <<>> ELSE Tail(b),
                                               IF x < 0 THEN 1 ELSE 0)

NatSub(a, b) == NatStrip(NatSubC(a, b, 0))

\* -1, 0 or 1 as a < b, a = b, a > b
RECURSIVE NatCmpAt(_, _, _)
NatCmpAt(a, b, i) ==
    IF i = 0 THEN 0
    ELSE IF a[i] < b[i] THEN -1
    ELSE IF a[i] > b[i] THEN 1
    ELSE NatCmpAt(a, b, i - 1)

NatCmp(a, b) ==
    IF Len(a) < Len(b) THEN -1
    ELSE IF Len(a) > Len(b) THEN 1
    ELSE NatCmpAt(a, b, Len(a))

RECURSIVE NatMulLimb(_, _, _)
NatMulLimb(a, m, c) ==
    IF a = <<>> THEN (IF c = 0 THEN <<>> ELSE <<c>>)
    ELSE LET x == a[1] * m + c
         IN  <<x % Base>> \o NatMulLimb(Tail(a), m, x \div Base)

RECURSIVE NatMul(_, _)
NatMul(a, b) ==
    IF a = <<>> \/ b = <<>> THEN <<>>
    ELSE IF Len(b) = 1 THEN NatMulLimb(a, b[1], 0)
    ELSE NatAdd(NatMulLimb(a, b[1], 0), <<0>> \o NatMul(a, Tail(b)))

\* ------------------------------------------------------------------------
\* Exact arithmetic: signed decimal numbers  (-1)^neg * mag * Base^(-exp)
\* ------------------------------------------------------------------------
RECURSIVE DecNorm(_)
DecNorm(x) ==
    IF x.mag = <<>> THEN [neg |-> FALSE, mag |-> <<>>, exp |-> 0]
    ELSE IF x.exp > 0 /\ x.mag[1] = 0
         THEN DecNorm([neg |-> x.neg, mag |-> Tail(x.mag), exp |-> x.exp - 1])
    ELSE x

\* the number i * Base^(-e), i an integer
Dec(i, e) ==
    DecNorm([neg |-> i < 0, mag |-> NatFromInt(IF i < 0 THEN -i ELSE i), exp |-> e])

Zero == Dec(0, 0)
One == Dec(1, 0)

RECURSIVE NatShift(_, _)
NatShift(a, k) == IF k = 0 \/ a = <<>> THEN a ELSE NatShift(<<0>> \o a, k - 1)

DecNeg(x) == IF x.mag = <<>> THEN x ELSE [x EXCEPT !.neg = ~x.neg]

DecAdd(x, y) ==
    LET e == IF x.exp > y.exp THEN x.exp ELSE y.exp
        a == NatShift(x.mag, e - x.exp)
        b == NatShift(y.mag, e - y.exp)
    IN  IF x.neg = y.neg
        THEN DecNorm([neg |-> x.neg, mag |-> NatAdd(a, b), exp |-> e])
        ELSE IF NatCmp(a, b) >= 0
             THEN DecNorm([neg |-> x.neg, mag |-> NatSub(a, b), exp |-> e])
             ELSE DecNorm([neg |-> y.neg, mag |-> NatSub(b, a), exp |-> e])

DecSub(x, y) == DecAdd(x, DecNeg(y))

DecMul(x, y) ==
    DecNorm([neg |-> x.neg # y.neg, mag |-> NatMul(x.mag, y.mag), exp |-> x.exp + y.exp])

DecSign(x) == IF x.mag = <<>> THEN 0 ELSE IF x.neg THEN -1 ELSE 1

DecLess(x, y) == DecSign(DecSub(x, y)) < 0

DecMax(x, y) == IF DecLess(x, y) THEN y ELSE x
DecMin(x, y) == IF DecLess(y, x) THEN y ELSE x
DecAbs(x) == [x EXCEPT !.neg = FALSE]

\* ------------------------------------------------------------------------
\* Exact arithmetic: quotients n / d with d > 0
\* ------------------------------------------------------------------------
Rat(x) == [n |-> x, d |-> One]

\* a / b for b # 0
RatDiv(a, b) ==
    IF b.n.neg
    THEN [n |-> DecNeg(DecMul(a.n, b.d)), d |-> DecMul(a.d, DecAbs(b.n))]
    ELSE [n |-> DecMul(a.n, b.d), d |-> DecMul(a.d, b.n)]

RatAdd(a, b) ==
    IF a.d = b.d THEN [n |-> DecAdd(a.n, b.n), d |-> a.d]
    ELSE [n |-> DecAdd(DecMul(a.n, b.d), DecMul(b.n, a.d)), d |-> DecMul(a.d, b.d)]

RatMul(a, b) == [n |-> DecMul(a.n, b.n), d |-> DecMul(a.d, b.d)]

RatLess(a, b) ==
    IF a.d = b.d THEN DecLess(a.n, b.n)
    ELSE DecLess(DecMul(a.n, b.d), DecMul(b.n, a.d))

RatEq(a, b) == DecMul(a.n, b.d) = DecMul(b.n, a.d)
RatLeq(a, b) == ~RatLess(b, a)
RatMax(a, b) == IF RatLess(a, b) THEN b ELSE a
RatMin(a, b) == IF RatLess(b, a) THEN b ELSE a

\* ------------------------------------------------------------------------
\* Program constants
\* ------------------------------------------------------------------------
HouseholdEmissions == 20
FirmEmissions == 200
InitialYear == 2024
MaxNeighbors == 10

Tenth == Dec(1000, 1)                  \* 0.1
SocialWeight == Dec(3000, 1)           \* 0.3
LatitudeWeight == Dec(2000, 1)         \* 0.2
Ninety == Dec(90, 0)
BasePrice == Dec(30, 0)
Two == Dec(2, 0)
PerMillion == Dec(100, 2)              \* 1 / 1e6
Sensitivity == Dec(150, 2)             \* 0.0000015
IncentiveThreshold == Dec(15000, 1)    \* 1.5
IncentiveSlope == Dec(20, 0)

\* ------------------------------------------------------------------------
\* Bounds and input sets
\* ------------------------------------------------------------------------
MaxHouseholds == 2
MaxFirms == 1
MaxSteps == 2
MaxCallAgents == 2
MaxDraws == 2
MaxPopulation == 12
MaxRuns == 2
MaxYears == 3
MaxLateSteps == 1
MaxDriverSteps == 4
\* the population of a Monte Carlo trial, for the 1000 and 100 of line 171
DriverHouseholds == 1
DriverFirms == 1

\* the values np.random gives one household / one firm at construction:
\* wealth (lognormal), awareness (beta), location (city centre plus noise,
\* or uniform over the square)
HouseholdSamples ==
    { [wealth |-> Dec(60000, 0), awareness |-> Dec(3000, 1), location |-> <<30, 30>>],
      [wealth |-> Dec(5, 0),     awareness |-> Dec(1000, 1), location |-> <<-27, 34>>],
      [wealth |-> Dec(20000, 0), awareness |-> Dec(5000, 1), location |-> <<0, -30>>] }
FirmSamples ==
    { [wealth |-> Dec(440000, 0), awareness |-> Dec(3000, 1), location |-> <<60, -45>>],
      [wealth |-> Dec(15, 0),     awareness |-> Dec(1000, 1), location |-> <<-27, 34>>] }

\* the arguments (renewable_cost, fossil_cost) of step: the base costs of the
\* Monte Carlo driver, and cheap renewables against dear fossil energy
StepArguments == {<<Dec(100, 0), Dec(80, 0)>>, <<Dec(1, 0), Dec(1000, 0)>>}
\* values of np.random.random(), in [0, 1)
Draws == {Dec(0, 0), Dec(500, 1), Dec(5000, 1)}

\* ------------------------------------------------------------------------
\* State
\* ------------------------------------------------------------------------
VARIABLES
    n_households, n_firms,   \* the arguments of ClimateModel(...)
    agents,                  \* self.agents, in creation order
    temperature, year, cumulative_emissions, carbon_price,
    err,                     \* the exception that ended the last operation, or "none"
    steps,                   \* number of step calls made
    result,                  \* what the last completed step returned
    op,                      \* the last operation called
    calls,                   \* the decide_adoption calls of the last operation, in order
    tallies,                 \* what the last step added to total_emissions, by agent
    ndraws,                  \* np.random.random() calls made since construction
    driver                   \* the frame of run_monte_carlo_simulation, if it runs

vars == <<n_households, n_firms, agents, temperature, year, cumulative_emissions,
          carbon_price, err, steps, result, op, calls, tallies, ndraws, driver>>

NoResult == [new_adoptions |-> -1]
NoDriver == [pc |-> "none"]

\* ------------------------------------------------------------------------
\* Agent
\* ------------------------------------------------------------------------
\* the annual emissions an agent of this type starts with
Baseline(type) == IF type = "household" THEN HouseholdEmissions ELSE FirmEmissions

NewAgent(id, type, wealth, environmental_awareness, location) ==
    [id |-> id, type |-> type, wealth |-> wealth,
     environmental_awareness |-> environmental_awareness,
     has_renewables |-> FALSE,
     energy_cost |-> Zero,
     location |-> location,
     neighbors |-> <<>>,
     annual_emissions |-> Dec(Baseline(type), 0)]

\* mutant: line 25 counting the neighbors that had renewables when the step
\* began
AdoptedNeighborsAtStepStart(self, ags) ==
    Cardinality({k \in 1..Len(self.neighbors) : agents[self.neighbors[k]].has_renewables})

\* sum(1 for n in self.neighbors if n.has_renewables)
AdoptedNeighbors(self, ags) ==
    Cardinality({k \in 1..Len(self.neighbors) : ags[self.neighbors[k]].has_renewables})

BaseCostDifference(renewable_cost, fossil_cost, policy_incentive) ==
    RatDiv(Rat(DecAdd(DecSub(fossil_cost, renewable_cost), policy_incentive)),
           Rat(fossil_cost))

\* mutant: line 25 dividing by len(self.neighbors) as it is
NeighborAdoptionRateUnguarded(self, ags) ==
    [n |-> Dec(AdoptedNeighbors(self, ags), 0), d |-> Dec(Len(self.neighbors), 0)]

NeighborAdoptionRate(self, ags) ==
    RatDiv(Rat(Dec(AdoptedNeighbors(self, ags), 0)),
           Rat(Dec(IF Len(self.neighbors) > 1 THEN Len(self.neighbors) ELSE 1, 0)))

SocialInfluence(self, ags) == RatMul(Rat(SocialWeight), NeighborAdoptionRate(self, ags))

LocalTempImpact(self, global_temperature) ==
    RatMul(Rat(global_temperature),
           RatAdd(Rat(One),
                  RatDiv(Rat(DecMul(LatitudeWeight, DecAbs(Dec(self.location[2], 0)))),
                         Rat(Ninety))))

EnvironmentalFactor(self, global_temperature) ==
    RatMul(Rat(self.environmental_awareness), LocalTempImpact(self, global_temperature))

\* mutant: line 34 comparing the wealth with one annual payment
WealthGateOnePayment(self, renewable_cost) ==
    /\ DecLess(self.wealth, renewable_cost)
    /\ DecLess(self.wealth, DecMul(renewable_cost, Tenth))

\* the condition of line 34
WealthGate(self, renewable_cost) ==
    LET annual_payment == DecMul(renewable_cost, Tenth)
    IN  /\ DecLess(self.wealth, renewable_cost)
        /\ DecLess(self.wealth, DecMul(annual_payment, Two))

\* adoption_probability as it stands at line 37
AdoptionProbability(self, ags, renewable_cost, fossil_cost, global_temperature, policy_incentive) ==
    LET combined ==
            RatMul(Rat(Tenth),
                   RatAdd(RatAdd(BaseCostDifference(renewable_cost, fossil_cost, policy_incentive),
                                 SocialInfluence(self, ags)),
                          EnvironmentalFactor(self, global_temperature)))
    IN  IF WealthGate(self, renewable_cost) THEN RatMul(combined, Rat(Tenth)) ELSE combined

\* max(0, min(1, p))
Clamp(p) == RatMax(Rat(Zero), RatMin(Rat(One), p))

\* mutant: line 39 charging the whole renewable cost
AdoptFullCost(self, renewable_cost) ==
    [self EXCEPT !.has_renewables = TRUE,
                 !.energy_cost = renewable_cost,
                 !.annual_emissions = DecMul(@, Tenth)]

\* mutant: line 40 computes the reduced emissions and drops them
AdoptNoReduction(self, renewable_cost) ==
    [self EXCEPT !.has_renewables = TRUE,
                 !.energy_cost = DecMul(renewable_cost, Tenth)]

\* mutant: the adopter pays the renewable cost out of its wealth
AdoptPaying(self, renewable_cost) ==
    [self EXCEPT !.has_renewables = TRUE,
                 !.wealth = DecSub(@, renewable_cost),
                 !.energy_cost = DecMul(renewable_cost, Tenth),
                 !.annual_emissions = DecMul(@, Tenth)]

Adopt(self, renewable_cost) ==
    [self EXCEPT !.has_renewables = TRUE,
                 !.energy_cost = DecMul(renewable_cost, Tenth),
                 !.annual_emissions = DecMul(@, Tenth)]

\* mutant: an adoption that returns False
DecideUnreported(ags, i, renewable_cost, p, u) ==
    IF RatLess(Rat(u), p)
    THEN [agents |-> [ags EXCEPT ![i] = Adopt(ags[i], renewable_cost)],
          ret |-> FALSE, drew |-> TRUE, err |-> "none", p |-> p]
    ELSE [agents |-> ags, ret |-> FALSE, drew |-> TRUE, err |-> "none", p |-> p]

\* what decide_adoption does once np.random.random() has returned u and the
\* clamped probability is p
Decide(ags, i, renewable_cost, p, u) ==
    IF RatLess(Rat(u), p)
    THEN [agents |-> [ags EXCEPT ![i] = Adopt(ags[i], renewable_cost)],
          ret |-> TRUE, drew |-> TRUE, err |-> "none", p |-> p]
    ELSE [agents |-> ags, ret |-> FALSE, drew |-> TRUE, err |-> "none", p |-> p]

\* mutant: decide_adoption without the early return of lines 20-21
DecideAdoptionNoLatch(ags, i, renewable_cost, fossil_cost, global_temperature, policy_incentive) ==
    IF fossil_cost = Zero
    THEN {[agents |-> ags, ret |-> FALSE, drew |-> FALSE, err |-> "ZeroDivisionError", p |-> Rat(Zero)]}
    ELSE UNION { {Decide(ags, i, renewable_cost, p, u) : u \in Draws} :
                 p \in {Clamp(AdoptionProbability(ags[i], ags, renewable_cost, fossil_cost,
                                                  global_temperature, policy_incentive))} }

\* mutant: decide_adoption making its draw ahead of the early return
DecideAdoptionDrawFirst(ags, i, renewable_cost, fossil_cost, global_temperature, policy_incentive) ==
    IF ags[i].has_renewables
    THEN {[agents |-> ags, ret |-> FALSE, drew |-> TRUE, err |-> "none", p |-> Rat(Zero)]}
    ELSE IF fossil_cost = Zero
    THEN {[agents |-> ags, ret |-> FALSE, drew |-> FALSE, err |-> "ZeroDivisionError", p |-> Rat(Zero)]}
    ELSE UNION { {Decide(ags, i, renewable_cost, p, u) : u \in Draws} :
                 p \in {Clamp(AdoptionProbability(ags[i], ags, renewable_cost, fossil_cost,
                                                  global_temperature, policy_incentive))} }

\* agent i's decide_adoption: the outcomes the call can have, one for each
\* value np.random.random() can return.  An outcome is the agents after the
\* call, the value returned, whether the draw was made, the exception
\* raised if any, and the probability the draw was compared with (0 where
\* the call made no draw).
DecideAdoption(ags, i, renewable_cost, fossil_cost, global_temperature, policy_incentive) ==
    IF ags[i].has_renewables
    THEN {[agents |-> ags, ret |-> FALSE, drew |-> FALSE, err |-> "none", p |-> Rat(Zero)]}
    ELSE IF fossil_cost = Zero
    THEN {[agents |-> ags, ret |-> FALSE, drew |-> FALSE, err |-> "ZeroDivisionError", p |-> Rat(Zero)]}
    ELSE UNION { {Decide(ags, i, renewable_cost, p, u) : u \in Draws} :
                 p \in {Clamp(AdoptionProbability(ags[i], ags, renewable_cost, fossil_cost,
                                                  global_temperature, policy_incentive))} }

\* ------------------------------------------------------------------------
\* ClimateModel: construction
\* ------------------------------------------------------------------------
\* range(n)
Range(n) == IF n > 0 THEN 1..n ELSE {}

\* The square of dist.  sorted() orders by dist = np.sqrt(.), and the square
\* root keeps both the order and the ties of its argument.
Dist2(a, b) ==
    (a.location[1] - b.location[1]) * (a.location[1] - b.location[1]) +
    (a.location[2] - b.location[2]) * (a.location[2] - b.location[2])

\* the list `distances` of agent i: the other agents in creation order
RECURSIVE Others(_, _, _)
Others(ags, i, j) ==
    IF j > Len(ags) THEN <<>>
    ELSE (IF j # i THEN <<j>> ELSE <<>>) \o Others(ags, i, j + 1)

\* sorted(distances) compares (dist, other) pairs: when two dist are equal it
\* goes on to compare the Agent objects, which define no order
HasTie(ags, i) ==
    \E j, k \in 1..Len(ags) :
        j # i /\ k # i /\ j < k /\ Dist2(ags[i], ags[j]) = Dist2(ags[i], ags[k])

RECURSIVE InsertByDist(_, _, _, _)
InsertByDist(ags, i, j, sorted) ==
    IF sorted = <<>> THEN <<j>>
    ELSE IF Dist2(ags[i], ags[j]) < Dist2(ags[i], ags[Head(sorted)])
         THEN <<j>> \o sorted
         ELSE <<Head(sorted)>> \o InsertByDist(ags, i, j, Tail(sorted))

RECURSIVE SortByDist(_, _, _)
SortByDist(ags, i, others) ==
    IF others = <<>> THEN <<>>
    ELSE InsertByDist(ags, i, others[Len(others)],
                      SortByDist(ags, i, SubSeq(others, 1, Len(others) - 1)))

\* mutant: line 85 without its slice
NearestUnsliced(ags, i) == SortByDist(ags, i, Others(ags, i, 1))

\* sorted(distances)[:10]
Nearest(ags, i) ==
    LET sorted == SortByDist(ags, i, Others(ags, i, 1))
    IN  SubSeq(sorted, 1, IF Len(sorted) < MaxNeighbors THEN Len(sorted) ELSE MaxNeighbors)

\* _establish_neighbor_networks from agent i on
RECURSIVE EstablishFrom(_, _)
EstablishFrom(ags, i) ==
    IF i > Len(ags) THEN [agents |-> ags, err |-> "none"]
    ELSE IF HasTie(ags, i) THEN [agents |-> ags, err |-> "TypeError"]
    ELSE EstablishFrom([ags EXCEPT ![i].neighbors = Nearest(ags, i)], i + 1)

EstablishNeighborNetworks(ags) == EstablishFrom(ags, 1)

\* ClimateModel.__init__: hs and fs are the random samples of the households
\* and of the firms
Construct(nh, nf, hs, fs) ==
    LET households == [i \in Range(nh) |->
                          NewAgent(i - 1, "household", hs[i].wealth, hs[i].awareness,
                                   hs[i].location)]
        firms == [i \in Range(nf) |->
                     NewAgent(i - 1 + nh, "firm", fs[i].wealth, fs[i].awareness,
                              fs[i].location)]
    IN  EstablishNeighborNetworks(households \o firms)

Init ==
    /\ n_households \in -1..MaxHouseholds
    /\ n_firms \in 0..MaxFirms
    /\ \E hs \in [Range(n_households) -> HouseholdSamples],
          fs \in [Range(n_firms) -> FirmSamples] :
          LET built == Construct(n_households, n_firms, hs, fs)
          IN  /\ agents = built.agents
              /\ err = built.err
    /\ temperature = One
    /\ year = InitialYear
    /\ cumulative_emissions = Zero
    /\ carbon_price = Zero
    /\ steps = 0
    /\ result = NoResult
    /\ op = "init"
    /\ calls = <<>>
    /\ tallies = <<>>
    /\ ndraws = 0
    /\ driver = NoDriver

\* ------------------------------------------------------------------------
\* ClimateModel: calculate_carbon_price and step
\* ------------------------------------------------------------------------
\* mutant: the emission multiplier of line 90 counted from 1
CalculateCarbonPriceFromBase(temp, cumulative) ==
    LET base_price == BasePrice
        temp_multiplier == DecMax(One, DecMul(temp, temp))
        emission_multiplier == DecMin(Two, DecAdd(One, DecMul(cumulative, PerMillion)))
    IN  DecMul(DecMul(base_price, temp_multiplier), emission_multiplier)

CalculateCarbonPrice(temp, cumulative) ==
    LET base_price == BasePrice
        temp_multiplier == DecMax(One, DecMul(temp, temp))
        emission_multiplier == DecMin(Two, DecMul(cumulative, PerMillion))
    IN  DecMul(DecMul(base_price, temp_multiplier), emission_multiplier)

\* mutant: the incentive of line 97 paid from 1.0 degree on
PolicyIncentiveAboveOne(temp) ==
    DecMax(Zero, DecMul(DecSub(temp, One), IncentiveSlope))

PolicyIncentive(temp) ==
    DecMax(Zero, DecMul(DecSub(temp, IncentiveThreshold), IncentiveSlope))

\* mutant: the tally of line 105 made ahead of the call of line 103
TallyBefore(before, after, i) == before[i].annual_emissions

\* what the loop adds to total_emissions for agent i, `before` and `after`
\* the agents before and after agent i's decide_adoption: line 105 reads
\* agent.annual_emissions once the call of line 103 has returned
Tally(before, after, i) == after[i].annual_emissions

\* the record of one decide_adoption call, d its outcome and ags the agents
\* it found: the agent called, what the call returned, whether it made its
\* draw, the arguments it was given, the agents it changed, the
\* neighbor_adoption_rate of line 25 as the call computes it, and the
\* probability its draw was compared with
Call(ags, i, d, renewable_cost, fossil_cost, global_temperature, policy_incentive) ==
    [agent |-> i, returned |-> d.ret, drew |-> d.drew,
     renewable_cost |-> renewable_cost, fossil_cost |-> fossil_cost,
     global_temperature |-> global_temperature, policy_incentive |-> policy_incentive,
     changed |-> {j \in 1..Len(ags) : d.agents[j] # ags[j]},
     neighbor_adoption_rate |-> NeighborAdoptionRate(ags[i], ags),
     probability |-> d.p]

\* the loop of step from agent i on: its outcomes, one for each way the draws
\* can fall
RECURSIVE StepLoop(_, _, _, _, _, _, _, _, _, _)
StepLoop(ags, i, renewable_cost, fossil_cost, temp, policy_incentive, new_adoptions, total_emissions, log, tally) ==
    IF i > Len(ags)
    THEN {[agents |-> ags, new_adoptions |-> new_adoptions,
           total_emissions |-> total_emissions, calls |-> log, tallies |-> tally,
           err |-> "none"]}
    ELSE UNION {
           IF d.err # "none"
           THEN {[agents |-> d.agents, new_adoptions |-> new_adoptions,
                  total_emissions |-> total_emissions, calls |-> log, tallies |-> tally,
                  err |-> d.err]}
           ELSE StepLoop(d.agents, i + 1, renewable_cost, fossil_cost, temp,
                         policy_incentive,
                         new_adoptions + (IF d.ret THEN 1 ELSE 0),
                         DecAdd(total_emissions, Tally(ags, d.agents, i)),
                         Append(log, Call(ags, i, d, renewable_cost, fossil_cost, temp,
                                          policy_incentive)),
                         Append(tally, Tally(ags, d.agents, i))) :
           d \in DecideAdoption(ags, i, renewable_cost, fossil_cost, temp, policy_incentive) }

Adopters(ags) == {i \in 1..Len(ags) : ags[i].has_renewables}

\* mutant: the adopters counted against the size of a neighbour list
AdoptionRateOverNeighbors(ags) ==
    [n |-> Dec(Cardinality(Adopters(ags)), 0), d |-> Dec(MaxNeighbors, 0)]

\* mutant: the condition of line 108 negated
AdoptionRateOfFossil(ags) ==
    [n |-> Dec(Len(ags) - Cardinality(Adopters(ags)), 0), d |-> Dec(Len(ags), 0)]

\* sum(1 for a in self.agents if a.has_renewables) / len(self.agents)
AdoptionRate(ags) == [n |-> Dec(Cardinality(Adopters(ags)), 0), d |-> Dec(Len(ags), 0)]

\* mutant: line 110 as an increment of the previous temperature
TemperatureIncrement(cumulative) == DecAdd(temperature, DecMul(Sensitivity, cumulative))

\* mutant: line 110 reading this step's emissions for the cumulative ones
TemperatureOfStep(cumulative) ==
    DecAdd(One, DecMul(Sensitivity, DecSub(cumulative, cumulative_emissions)))

\* mutant: line 110 with the temperature sensitivity sampled for the trial
TemperatureOfParams(cumulative) ==
    DecAdd(One, DecMul(driver.params.temp_sensitivity, cumulative))

Temperature(cumulative) == DecAdd(One, DecMul(Sensitivity, cumulative))

\* mutant: the division of line 108 giving nan for 0 / 0, as numpy's does
DivisionErrorSilent(ags) == "none"

\* the exception the division of line 108 raises, if any
DivisionError(ags) == IF Len(ags) = 0 THEN "ZeroDivisionError" ELSE "none"

\* mutant: line 95 adding the price to a cost that kept the last step's price
SurchargedCarried(nominal_fossil_cost, price) ==
    DecAdd(DecAdd(nominal_fossil_cost, carbon_price), price)

\* fossil_cost after line 95, price the carbon_price line 94 has just set
Surcharged(nominal_fossil_cost, price) == DecAdd(nominal_fossil_cost, price)

\* step, on the model the variables hold
Step(renewable_cost, nominal_fossil_cost) ==
    /\ err = "none"
    /\ \E price \in {CalculateCarbonPrice(temperature, cumulative_emissions)} :
       \E loop \in StepLoop(agents, 1, renewable_cost, Surcharged(nominal_fossil_cost, price),
                            temperature, PolicyIncentive(temperature), 0, Zero, <<>>, <<>>) :
       \E cumulative \in {DecAdd(cumulative_emissions, loop.total_emissions)} :
        /\ steps' = steps + 1
        /\ carbon_price' = price
        /\ agents' = loop.agents
        /\ op' = "step"
        /\ calls' = loop.calls
        /\ tallies' = loop.tallies
        /\ ndraws' = ndraws + Cardinality({k \in 1..Len(loop.calls) : loop.calls[k].drew})
        /\ UNCHANGED <<n_households, n_firms>>
        /\ IF loop.err # "none"
           THEN /\ err' = loop.err
                /\ UNCHANGED <<cumulative_emissions, temperature, year, result>>
           ELSE IF DivisionError(loop.agents) # "none"
           THEN /\ err' = DivisionError(loop.agents)
                /\ cumulative_emissions' = cumulative
                /\ UNCHANGED <<temperature, year, result>>
           ELSE /\ err' = "none"
                /\ cumulative_emissions' = cumulative
                /\ temperature' = Temperature(cumulative)
                /\ year' = year + 1
                /\ result' = [new_adoptions |-> loop.new_adoptions,
                              adoption_rate |-> AdoptionRate(loop.agents),
                              temperature |-> Temperature(cumulative),
                              total_emissions |-> loop.total_emissions]

\* a step called on the model, with any of the arguments
StepCall(renewable_cost, nominal_fossil_cost) ==
    /\ steps < MaxSteps
    /\ Step(renewable_cost, nominal_fossil_cost)
    /\ UNCHANGED driver

Next ==
    \E args \in StepArguments : StepCall(args[1], args[2])

Spec == Init /\ [][Next]_vars

\* ------------------------------------------------------------------------
\* decide_adoption called directly, with any arguments
\* ------------------------------------------------------------------------
\* the arguments (renewable_cost, fossil_cost, global_temperature,
\* policy_incentive) of a call: the ones of the driver's first step, a fossil
\* cost of 0, renewables for nothing in a warmer world, an incentive that
\* makes up the cost difference at two fossil costs, and an incentive far
\* above every cost
CallArguments ==
    { <<Dec(100, 0), Dec(80, 0), Dec(1, 0), Dec(0, 0)>>,
      <<Dec(100, 0), Dec(0, 0), Dec(1, 0), Dec(0, 0)>>,
      <<Dec(0, 0), Dec(80, 0), Dec(2, 0), Dec(0, 0)>>,
      <<Dec(100, 0), Dec(80, 0), Dec(1, 0), Dec(100, 0)>>,
      <<Dec(100, 0), Dec(1000, 0), Dec(1, 0), Dec(100, 0)>>,
      <<Dec(100, 0), Dec(80, 0), Dec(2, 0), Dec(10000, 0)>> }

DecideAdoptionCall(i, renewable_cost, fossil_cost, global_temperature, policy_incentive) ==
    /\ err = "none"
    /\ ndraws < MaxDraws
    /\ \E d \in DecideAdoption(agents, i, renewable_cost, fossil_cost, global_temperature,
                                policy_incentive) :
        /\ agents' = d.agents
        /\ err' = d.err
        /\ op' = "decide_adoption"
        /\ calls' = <<Call(agents, i, d, renewable_cost, fossil_cost, global_temperature,
                           policy_incentive)>>
        /\ ndraws' = ndraws + (IF d.drew THEN 1 ELSE 0)
    /\ UNCHANGED <<n_households, n_firms, temperature, year, cumulative_emissions,
                   carbon_price, steps, result, tallies, driver>>

InitAgent == Init /\ n_households + n_firms <= MaxCallAgents

NextAgent ==
    \E i \in 1..Len(agents), args \in CallArguments :
        DecideAdoptionCall(i, args[1], args[2], args[3], args[4])

SpecAgent == InitAgent /\ [][NextAgent]_vars

\* ------------------------------------------------------------------------
\* calculate_carbon_price called on a model of any temperature and emissions
\* ------------------------------------------------------------------------
PriceTemperatures ==
    {Dec(0, 0), Dec(5000, 1), Dec(1, 0), Dec(10600, 1), Dec(15000, 1), Dec(2, 0),
     Dec(3, 0), Dec(4, 0)}
PriceEmissions ==
    {Dec(0, 0), Dec(1, 0), Dec(40000, 0), Dec(500000, 0), Dec(1000000, 0),
     Dec(1500000, 0), Dec(2000000, 0), Dec(3000000, 0)}

InitPrice ==
    /\ n_households = 0
    /\ n_firms = 0
    /\ agents = <<>>
    /\ err = "none"
    /\ temperature \in PriceTemperatures
    /\ cumulative_emissions \in PriceEmissions
    /\ year = InitialYear
    /\ carbon_price = Zero
    /\ steps = 0
    /\ result = NoResult
    /\ op = "init"
    /\ calls = <<>>
    /\ tallies = <<>>
    /\ ndraws = 0
    /\ driver = NoDriver

CalculateCarbonPriceCall ==
    /\ op = "init"
    /\ carbon_price' = CalculateCarbonPrice(temperature, cumulative_emissions)
    /\ op' = "calculate_carbon_price"
    /\ UNCHANGED <<n_households, n_firms, agents, temperature, year,
                   cumulative_emissions, err, steps, result, calls, tallies, ndraws,
                   driver>>

NextPrice == CalculateCarbonPriceCall

SpecPrice == InitPrice /\ [][NextPrice]_vars

\* ------------------------------------------------------------------------
\* _establish_neighbor_networks called on a population of any size
\* ------------------------------------------------------------------------
\* locations of agents: no two of them are at the same distance from a third
Locations ==
    << <<-21, 27>>, <<41, 35>>, <<-49, 19>>, <<40, 32>>, <<31, 43>>, <<32, 25>>,
       <<21, 20>>, <<21, 25>>, <<49, 36>>, <<-41, 36>>, <<-7, -13>>, <<17, 25>>,
       <<-34, 20>> >>
Strides == {1, 2, 5}

\* the location drawn for the k-th agent created
LocationOf(k, start, stride) ==
    Locations[((start - 1 + (k - 1) * stride) % Len(Locations)) + 1]

\* self.agents as line 73 finds it: every agent created, no neighbors yet
Population(nh, nf, start, stride) ==
    [k \in Range(nh + nf) |->
        NewAgent(k - 1, IF k <= nh THEN "household" ELSE "firm",
                 Dec(60000, 0), Dec(3000, 1), LocationOf(k, start, stride))]

InitNeighbors ==
    /\ n_firms \in 0..MaxFirms
    /\ n_households \in 0..(MaxPopulation - n_firms)
    /\ \E start \in 1..Len(Locations), stride \in Strides :
          agents = Population(n_households, n_firms, start, stride)
    /\ err = "none"
    /\ temperature = One
    /\ year = InitialYear
    /\ cumulative_emissions = Zero
    /\ carbon_price = Zero
    /\ steps = 0
    /\ result = NoResult
    /\ op = "created"
    /\ calls = <<>>
    /\ tallies = <<>>
    /\ ndraws = 0
    /\ driver = NoDriver

EstablishNeighborNetworksCall ==
    /\ op = "created"
    /\ \E built \in {EstablishNeighborNetworks(agents)} :
          /\ agents' = built.agents
          /\ err' = built.err
    /\ op' = "init"
    /\ UNCHANGED <<n_households, n_firms, temperature, year, cumulative_emissions,
                   carbon_price, steps, result, calls, tallies, ndraws, driver>>

NextNeighbors == EstablishNeighborNetworksCall

SpecNeighbors == InitNeighbors /\ [][NextNeighbors]_vars

\* ------------------------------------------------------------------------
\* run_monte_carlo_simulation: arithmetic of the statistics
\* ------------------------------------------------------------------------
RatSub(a, b) == RatAdd(a, [n |-> DecNeg(b.n), d |-> b.d])

RECURSIVE RatSum(_)
RatSum(seq) == IF Len(seq) = 0 THEN Rat(Zero) ELSE RatAdd(Head(seq), RatSum(Tail(seq)))

\* A standard deviation is a square root.  It is kept as its square, the
\* variance, and mean - 2 * std and mean + 2 * std as a + b * sqrt(v) with
\* a and v quotients and b an integer, which compares exactly with a
\* quotient.
Exactly(r) == [a |-> r, b |-> Zero, v |-> Rat(Zero)]

\* a + b * sqrt(v) < r
RootLess(x, r) ==
    LET c == RatSub(r, x.a)
        bbv == RatMul(Rat(DecMul(x.b, x.b)), x.v)
        cc == RatMul(c, c)
    IN  IF DecSign(x.b) = 0 THEN RatLess(Rat(Zero), c)
        ELSE IF DecSign(x.b) > 0 THEN RatLess(Rat(Zero), c) /\ RatLess(bbv, cc)
        ELSE RatLess(Rat(Zero), c) \/ RatLess(cc, bbv)

\* a + b * sqrt(v) > r
RootGreater(x, r) ==
    LET c == RatSub(r, x.a)
        bbv == RatMul(Rat(DecMul(x.b, x.b)), x.v)
        cc == RatMul(c, c)
    IN  IF DecSign(x.b) = 0 THEN RatLess(c, Rat(Zero))
        ELSE IF DecSign(x.b) > 0 THEN RatLess(c, Rat(Zero)) \/ RatLess(cc, bbv)
        ELSE RatLess(c, Rat(Zero)) /\ RatLess(bbv, cc)

\* None as a bound of np.clip
NoBound == [n |-> Zero, d |-> Zero]

\* mutant: the band handed to fill_between as it is
ClipNothing(x, lo, hi) == x

\* np.clip(x, lo, hi)
Clip(x, lo, hi) ==
    IF lo # NoBound /\ RootLess(x, lo) THEN Exactly(lo)
    ELSE IF hi # NoBound /\ RootGreater(x, hi) THEN Exactly(hi)
    ELSE x

\* the entries of year y, one for each trial
Column(table, y) == [r \in 1..Len(table) |-> table[r][y]]

\* mutant: np.mean without axis=0, the mean of the whole table
MeanOfAll(table, y) ==
    RatDiv(RatSum([r \in 1..Len(table) |-> RatSum(table[r])]),
           Rat(Dec(Len(table) * Len(table[1]), 0)))

\* np.mean(table, axis=0)[y]
Mean(table, y) == RatDiv(RatSum(Column(table, y)), Rat(Dec(Len(table), 0)))

\* np.std(table, axis=0)[y], as its square
Std(table, y) ==
    LET m == Mean(table, y)
    IN  [sq |-> RatDiv(RatSum([r \in 1..Len(table) |->
                                  RatMul(RatSub(table[r][y], m), RatSub(table[r][y], m))]),
                       Rat(Dec(Len(table), 0)))]

\* mean - 2 * std and mean + 2 * std
Below(mean, std) == [a |-> mean, b |-> Dec(-2, 0), v |-> std.sq]
Above(mean, std) == [a |-> mean, b |-> Dec(2, 0), v |-> std.sq]

Years(table) == 1..Len(table[1])

\* lines 204-214
Statistics(all_temperatures, all_adoption_rates, all_emissions, all_carbon_prices) ==
    [temp_mean |-> [y \in Years(all_temperatures) |-> Mean(all_temperatures, y)],
     temp_std |-> [y \in Years(all_temperatures) |-> Std(all_temperatures, y)],
     adopt_mean |-> [y \in Years(all_adoption_rates) |-> Mean(all_adoption_rates, y)],
     adopt_std |-> [y \in Years(all_adoption_rates) |-> Std(all_adoption_rates, y)],
     emis_mean |-> [y \in Years(all_emissions) |-> Mean(all_emissions, y)],
     emis_std |-> [y \in Years(all_emissions) |-> Std(all_emissions, y)],
     price_mean |-> [y \in Years(all_carbon_prices) |-> Mean(all_carbon_prices, y)],
     price_std |-> [y \in Years(all_carbon_prices) |-> Std(all_carbon_prices, y)]]

\* the bands handed to fill_between, lines 221-250
Bands(stats) ==
    [temperature |-> [y \in DOMAIN stats.temp_mean |->
                        [lo |-> Below(stats.temp_mean[y], stats.temp_std[y]),
                         hi |-> Above(stats.temp_mean[y], stats.temp_std[y])]],
     adoption |-> [y \in DOMAIN stats.adopt_mean |->
                     [lo |-> Clip(Below(stats.adopt_mean[y], stats.adopt_std[y]),
                                  Rat(Zero), Rat(One)),
                      hi |-> Clip(Above(stats.adopt_mean[y], stats.adopt_std[y]),
                                  Rat(Zero), Rat(One))]],
     emissions |-> [y \in DOMAIN stats.emis_mean |->
                      [lo |-> Clip(Below(stats.emis_mean[y], stats.emis_std[y]),
                                   Rat(Zero), NoBound),
                       hi |-> Above(stats.emis_mean[y], stats.emis_std[y])]],
     price |-> [y \in DOMAIN stats.price_mean |->
                  [lo |-> Clip(Below(stats.price_mean[y], stats.price_std[y]),
                               Rat(Zero), NoBound),
                   hi |-> Above(stats.price_mean[y], stats.price_std[y])]]]

\* ------------------------------------------------------------------------
\* run_monte_carlo_simulation
\* ------------------------------------------------------------------------
\* what np.random.normal gives the seven parameters of a trial: the means of
\* lines 127-135, and a draw one standard deviation above each
ParamSamples ==
    { [learning_rate |-> Dec(1500, 1), env_awareness_alpha |-> Dec(2, 0),
       env_awareness_beta |-> Dec(5, 0), wealth_mean |-> Dec(11, 0),
       temp_sensitivity |-> Dec(150, 2), social_influence |-> Dec(3000, 1),
       base_carbon_price |-> Dec(30, 0)],
      [learning_rate |-> Dec(1800, 1), env_awareness_alpha |-> Dec(24000, 1),
       env_awareness_beta |-> Dec(6, 0), wealth_mean |-> Dec(12, 0),
       temp_sensitivity |-> Dec(180, 2), social_influence |-> Dec(3600, 1),
       base_carbon_price |-> Dec(36, 0)] }
NoParams == [learning_rate |-> Zero]

\* the samples np.random gives the households and the firms of a trial's
\* model, in creation order
TrialHouseholds ==
    << [wealth |-> Dec(60000, 0), awareness |-> Dec(3000, 1), location |-> <<30, 30>>],
       [wealth |-> Dec(20000, 0), awareness |-> Dec(5000, 1), location |-> <<0, -30>>] >>
TrialFirms ==
    << [wealth |-> Dec(440000, 0), awareness |-> Dec(3000, 1), location |-> <<60, -45>>],
       [wealth |-> Dec(15, 0),     awareness |-> Dec(1000, 1), location |-> <<-27, 34>>] >>

BaseRenewableCost == Dec(100, 0)
NominalFossilCost == Dec(80, 0)

\* 2 ** (np.log2(m) * -learning_rate), to eight decimal places, for the
\* learning rates of ParamSamples
LearningFactor(m, learning_rate) ==
    LET table == IF learning_rate = Dec(1500, 1)
                 THEN <<100000000, 90125046, 84807022, 81225240, 78551503, 76432368,
                        74685328>>
                 ELSE <<100000000, 88270300, 82057480, 77916458, 74848896, 72432383,
                        70450220>>
    IN  Dec(table[m], 2)

\* renewable_cost of line 184
LearningCurve(base_renewable_cost, current_adoption, learning_rate) ==
    DecMul(base_renewable_cost,
           LearningFactor(IF current_adoption + 1 > 1 THEN current_adoption + 1 ELSE 1,
                          learning_rate))

\* the frame of run_monte_carlo_simulation(n_runs, years) at line 137
NewDriver(n_runs, years) ==
    [pc |-> "trial", n_runs |-> n_runs, years |-> years, run |-> 0, year |-> 0,
     params |-> NoParams,
     temperatures |-> <<>>, adoption_rates |-> <<>>, emissions |-> <<>>,
     carbon_prices |-> <<>>,
     base_renewable_cost |-> Zero, fossil_cost |-> Zero,
     all_temperatures |-> <<>>, all_adoption_rates |-> <<>>, all_emissions |-> <<>>,
     all_carbon_prices |-> <<>>,
     stats |-> [temp_mean |-> <<>>], bands |-> [temperature |-> <<>>],
     returned |-> [temperatures |-> <<>>]]

\* mutant: the model of the first trial kept for the trials after it
NewModelReused(nh, nf, hs, fs) ==
    IF driver.run = 0
    THEN [agents |-> Construct(nh, nf, hs, fs).agents, err |-> Construct(nh, nf, hs, fs).err,
          temperature |-> One, year |-> InitialYear, cumulative_emissions |-> Zero,
          carbon_price |-> Zero]
    ELSE [agents |-> agents, err |-> err, temperature |-> temperature, year |-> year,
          cumulative_emissions |-> cumulative_emissions, carbon_price |-> carbon_price]

\* ClimateModel(nh, nf): the fields of the new model
NewModel(nh, nf, hs, fs) ==
    [agents |-> Construct(nh, nf, hs, fs).agents, err |-> Construct(nh, nf, hs, fs).err,
     temperature |-> One, year |-> InitialYear, cumulative_emissions |-> Zero,
     carbon_price |-> Zero]

InitMonteCarlo ==
    /\ \E n \in 1..MaxRuns, y \in 0..MaxYears :
          /\ n * y <= MaxDriverSteps
          /\ driver = NewDriver(n, y)
    /\ n_households = 0
    /\ n_firms = 0
    /\ agents = <<>>
    /\ err = "none"
    /\ temperature = Zero
    /\ year = 0
    /\ cumulative_emissions = Zero
    /\ carbon_price = Zero
    /\ steps = 0
    /\ result = NoResult
    /\ op = "none"
    /\ calls = <<>>
    /\ tallies = <<>>
    /\ ndraws = 0

\* lines 137-179: the parameters sampled, the model built, the series begun
StartTrial ==
    /\ driver.pc = "trial"
    /\ driver.run < driver.n_runs
    /\ \E params \in ParamSamples :
       \E model \in {NewModel(DriverHouseholds, DriverFirms, TrialHouseholds, TrialFirms)} :
        /\ n_households' = DriverHouseholds
        /\ n_firms' = DriverFirms
        /\ agents' = model.agents
        /\ err' = model.err
        /\ temperature' = model.temperature
        /\ year' = model.year
        /\ cumulative_emissions' = model.cumulative_emissions
        /\ carbon_price' = model.carbon_price
        /\ steps' = 0
        /\ result' = NoResult
        /\ op' = "init"
        /\ calls' = <<>>
        /\ tallies' = <<>>
        /\ ndraws' = 0
        /\ driver' = IF model.err # "none"
                      THEN [driver EXCEPT !.pc = "raised", !.params = params]
                      ELSE [driver EXCEPT !.pc = "year", !.year = 0, !.params = params,
                                          !.temperatures = <<Rat(model.temperature)>>,
                                          !.adoption_rates = <<Rat(Zero)>>,
                                          !.emissions = <<Rat(Zero)>>,
                                          !.carbon_prices = <<Rat(model.carbon_price)>>,
                                          !.base_renewable_cost = BaseRenewableCost,
                                          !.fossil_cost = NominalFossilCost]

\* mutant: the loop of line 181 going on through year = years
LoopContinuesThrough(year_, years) == year_ <= years

\* for year in range(years): whether there is a pass for year_
LoopContinues(year_, years) == year_ < years

\* lines 181-190: one pass of the loop over the years
SimulateYear ==
    /\ driver.pc = "year"
    /\ LoopContinues(driver.year, driver.years)
    /\ Step(LearningCurve(driver.base_renewable_cost, Cardinality(Adopters(agents)),
                          driver.params.learning_rate),
            driver.fossil_cost)
    /\ driver' = IF err' # "none"
                  THEN [driver EXCEPT !.pc = "raised"]
                  ELSE [driver EXCEPT !.year = @ + 1,
                                      !.temperatures = Append(@, Rat(result'.temperature)),
                                      !.adoption_rates = Append(@, result'.adoption_rate),
                                      !.emissions = Append(@, Rat(result'.total_emissions)),
                                      !.carbon_prices = Append(@, Rat(carbon_price'))]

\* lines 192-195: the series of the trial kept
FinishTrial ==
    /\ driver.pc = "year"
    /\ ~LoopContinues(driver.year, driver.years)
    /\ driver' = [driver EXCEPT !.pc = "trial", !.run = @ + 1,
                                !.all_temperatures = Append(@, driver.temperatures),
                                !.all_adoption_rates = Append(@, driver.adoption_rates),
                                !.all_emissions = Append(@, driver.emissions),
                                !.all_carbon_prices = Append(@, driver.carbon_prices)]
    /\ UNCHANGED <<n_households, n_firms, agents, temperature, year, cumulative_emissions,
                   carbon_price, err, steps, result, op, calls, tallies, ndraws>>

\* lines 197-264: the statistics, the bands of the plots, the value returned
Aggregate ==
    /\ driver.pc = "trial"
    /\ driver.run = driver.n_runs
    /\ \E stats \in {Statistics(driver.all_temperatures, driver.all_adoption_rates,
                                 driver.all_emissions, driver.all_carbon_prices)} :
          driver' = [driver EXCEPT !.pc = "done",
                                   !.stats = stats,
                                   !.bands = Bands(stats),
                                   !.returned = [temperatures |-> driver.all_temperatures,
                                                 adoption_rates |-> driver.all_adoption_rates,
                                                 emissions |-> driver.all_emissions,
                                                 carbon_prices |-> driver.all_carbon_prices]]
    /\ UNCHANGED <<n_households, n_firms, agents, temperature, year, cumulative_emissions,
                   carbon_price, err, steps, result, op, calls, tallies, ndraws>>

NextMonteCarlo == StartTrial \/ SimulateYear \/ FinishTrial \/ Aggregate

SpecMonteCarlo == InitMonteCarlo /\ [][NextMonteCarlo]_vars

\* ------------------------------------------------------------------------
\* a model late in a run: stepped for many years in which no agent adopted
\* ------------------------------------------------------------------------
\* numbers of years after which a population emitting `baseline` a year has
\* the temperature of line 110 just below 1.5, just above it, and at 1.75
LateYears(baseline) ==
    {333333 \div baseline, 333333 \div baseline + 1, 500000 \div baseline}

\* the model after `years` steps without an adoption, the last of them
\* step(renewable_cost, nominal_fossil_cost): every step has added the
\* population's baseline to cumulative_emissions
InitLate ==
    /\ n_households \in 0..MaxHouseholds
    /\ n_firms \in 0..MaxFirms
    /\ n_households + n_firms > 0
    /\ \E hs \in [Range(n_households) -> HouseholdSamples],
          fs \in [Range(n_firms) -> FirmSamples],
          args \in StepArguments :
       \E built \in {Construct(n_households, n_firms, hs, fs)} :
       /\ built.err = "none"
       /\ \E years \in LateYears(HouseholdEmissions * n_households + FirmEmissions * n_firms) :
          \E before \in {DecMul(Dec(years - 1, 0),
                                Dec(HouseholdEmissions * n_households
                                    + FirmEmissions * n_firms, 0))} :
          \E price \in {CalculateCarbonPrice(Temperature(before), before)} :
          \E loop \in StepLoop(built.agents, 1, args[1], Surcharged(args[2], price),
                               Temperature(before), PolicyIncentive(Temperature(before)),
                               0, Zero, <<>>, <<>>) :
          \E cumulative \in {DecAdd(before, loop.total_emissions)} :
             /\ loop.err = "none"
             /\ loop.new_adoptions = 0
             /\ agents = loop.agents
             /\ err = "none"
             /\ temperature = Temperature(cumulative)
             /\ year = InitialYear + years
             /\ cumulative_emissions = cumulative
             /\ carbon_price = price
             /\ steps = years
             /\ result = [new_adoptions |-> 0,
                          adoption_rate |-> AdoptionRate(loop.agents),
                          temperature |-> Temperature(cumulative),
                          total_emissions |-> loop.total_emissions]
             /\ op = "step"
             /\ calls = loop.calls
             /\ tallies = loop.tallies
             /\ ndraws = years * Len(loop.agents)
    /\ driver = NoDriver

\* a further step of the run, within MaxLateSteps of the years above
LateStepCall(renewable_cost, nominal_fossil_cost) ==
    /\ \E years \in LateYears(HouseholdEmissions * n_households + FirmEmissions * n_firms) :
          years <= steps /\ steps < years + MaxLateSteps
    /\ Step(renewable_cost, nominal_fossil_cost)
    /\ UNCHANGED driver

NextLate ==
    \E args \in StepArguments : LateStepCall(args[1], args[2])

SpecLate == InitLate /\ [][NextLate]_vars

\* ------------------------------------------------------------------------
\* Properties
\* ------------------------------------------------------------------------
DecLeq(x, y) == ~DecLess(y, x)

\* C1: adoption latch.  Whatever the arguments and the draws of a sequence of
\* decide_adoption calls: an agent that has renewables keeps them, every call
\* on it returns False, and a call that returns True leaves has_renewables
\* True.
AdoptionLatch ==
    [][\A i \in 1..Len(agents) :
          /\ agents[i].has_renewables =>
               /\ agents'[i].has_renewables
               /\ \A k \in 1..Len(calls') : calls'[k].agent = i => ~calls'[k].returned
          /\ \A k \in 1..Len(calls') :
               (calls'[k].agent = i /\ calls'[k].returned) => agents'[i].has_renewables
      ]_vars

\* a call on an agent that adopted earlier: it returned False without a draw
LatchedCall ==
    /\ op = "decide_adoption"
    /\ \E k \in 1..Len(calls) :
          /\ agents[calls[k].agent].has_renewables
          /\ ~calls[k].returned
          /\ ~calls[k].drew

\* C2: emissions reduction.  Over the steps of a run an agent's
\* annual_emissions is multiplied by 0.1 in the step whose decide_adoption
\* call on it returns True and is left alone by every other step, so that it
\* is the baseline while the agent has no renewables and a tenth of it after.
EmissionsReduction ==
    /\ [](\A i \in 1..Len(agents) :
            agents[i].annual_emissions =
                IF agents[i].has_renewables
                THEN DecMul(Dec(Baseline(agents[i].type), 0), Tenth)
                ELSE Dec(Baseline(agents[i].type), 0))
    /\ [][\A i \in 1..Len(agents) :
            IF \E k \in 1..Len(calls') : calls'[k].agent = i /\ calls'[k].returned
            THEN /\ agents'[i].annual_emissions = DecMul(agents[i].annual_emissions, Tenth)
                 /\ DecLess(agents'[i].annual_emissions, agents[i].annual_emissions)
            ELSE agents'[i].annual_emissions = agents[i].annual_emissions
        ]_vars

\* after a step that left an earlier adopter alone: it made no draw for the
\* agent, whose emissions are still a tenth of the baseline
ReducedOnce ==
    /\ op = "step"
    /\ \E k \in 1..Len(calls) :
          /\ ~calls[k].drew
          /\ agents[k].has_renewables
          /\ agents[k].annual_emissions = DecMul(Dec(Baseline(agents[k].type), 0), Tenth)

\* C3 as stated: the amount an agent adds to the step's total_emissions is its
\* annual_emissions from before the step's own decide_adoption call, the full
\* baseline for an agent that adopts in the step.
TallyBeforeDecision ==
    op = "step" =>
        \A k \in 1..Len(tallies) :
            tallies[k] = IF calls[k].returned
                         THEN Dec(Baseline(agents[k].type), 0)
                         ELSE agents[k].annual_emissions

RECURSIVE DecSum(_)
DecSum(seq) == IF seq = <<>> THEN Zero ELSE DecAdd(Head(seq), DecSum(Tail(seq)))

\* C3, amended: the amount an agent adds to the step's total_emissions is its
\* annual_emissions as the step's own decide_adoption call leaves it, a tenth
\* of the baseline for an agent that adopts in the step; total_emissions is
\* the sum of these amounts.
TallyAfterDecision ==
    op = "step" =>
        /\ \A k \in 1..Len(tallies) :
              /\ tallies[k] = agents[k].annual_emissions
              /\ calls[k].returned =>
                    tallies[k] = DecMul(Dec(Baseline(agents[k].type), 0), Tenth)
        /\ result # NoResult => result.total_emissions = DecSum(tallies)

\* a step in which an agent adopted and was tallied at its reduced emissions
AdopterTallied ==
    /\ op = "step"
    /\ result # NoResult
    /\ \E k \in 1..Len(tallies) :
          /\ calls[k].returned
          /\ tallies[k] = DecMul(Dec(Baseline(agents[k].type), 0), Tenth)

\* C4: carbon price floor and cap.  After calculate_carbon_price, whatever
\* the temperature >= 0 and the cumulative emissions >= 0, carbon_price is at
\* least base_price and at most 2 * base_price * max(1, temperature^2).
CarbonPriceFloorAndCap ==
    op = "calculate_carbon_price" =>
        /\ DecLeq(BasePrice, carbon_price)
        /\ DecLeq(carbon_price,
                  DecMul(DecMul(Two, BasePrice),
                         DecMax(One, DecMul(temperature, temperature))))

\* C5: adoption rate.  The adoption_rate a step returns lies in [0, 1] and is
\* the number of agents that have renewables after the step over the size of
\* the population.
AdoptionRateBounds ==
    result # NoResult =>
        /\ RatLeq(Rat(Zero), result.adoption_rate)
        /\ RatLeq(result.adoption_rate, Rat(One))
        /\ RatEq(result.adoption_rate,
                 RatDiv(Rat(Dec(Cardinality({i \in 1..Len(agents) :
                                               agents[i].has_renewables}), 0)),
                        Rat(Dec(Len(agents), 0))))

\* a step returned a rate strictly between 0 and 1
PartialAdoption ==
    /\ result # NoResult
    /\ RatLess(Rat(Zero), result.adoption_rate)
    /\ RatLess(result.adoption_rate, Rat(One))

\* C6: temperature invariant.  After construction and after every step,
\* temperature is 1.0 + 0.0000015 * cumulative_emissions, and that is the
\* temperature the step returns.
TemperatureInvariant ==
    /\ temperature = DecAdd(One, DecMul(Sensitivity, cumulative_emissions))
    /\ (op = "step" /\ result # NoResult) => result.temperature = temperature

\* two steps have added their emissions
WarmedTwice ==
    /\ steps >= 2
    /\ err = "none"
    /\ DecLess(Zero, cumulative_emissions)
    /\ DecLess(One, temperature)

\* C7: temperature monotonicity.  From one step to the next neither
\* cumulative_emissions nor the temperature, nor the temperature the step
\* returns, decreases; the total_emissions of a step is never negative.
TemperatureMonotonic ==
    [][/\ DecLeq(cumulative_emissions, cumulative_emissions')
       /\ DecLeq(temperature, temperature')
       /\ result' # NoResult => DecLeq(Zero, result'.total_emissions)
       /\ (result # NoResult /\ result' # NoResult) =>
              DecLeq(result.temperature, result'.temperature)
      ]_vars

\* a second step in which an agent adopted, so that the step's emissions fell
SecondStepAdoption ==
    /\ steps >= 2
    /\ result # NoResult
    /\ result.new_adoptions > 0
    /\ DecLess(One, result.temperature)

\* C9: small populations.  On a population of at least one agent every step
\* completes and returns, and the adoption_rate it returns is not below the
\* one the step before returned.
SmallPopulationRuns ==
    [][(Len(agents) >= 1 /\ err = "none") =>
          /\ err' = "none"
          /\ result' # NoResult
          /\ result # NoResult => RatLeq(result.adoption_rate, result'.adoption_rate)
      ]_vars

\* ClimateModel(n_households=2, n_firms=0) stepped twice with
\* renewable_cost = 1 and fossil_cost = 1000, an agent having adopted
TwoHouseholdsStepped ==
    /\ n_households = 2
    /\ n_firms = 0
    /\ steps >= 2
    /\ err = "none"
    /\ ~DecLess(calls[1].fossil_cost, Dec(1000, 0))
    /\ RatLess(Rat(Zero), result.adoption_rate)

\* C10: configuration errors.  A model built with a zero or negative
\* population size has reported an error at construction, and no step runs
\* on it.
ConfigurationRejected ==
    (n_households < 0 \/ n_firms < 0 \/ n_households + n_firms <= 0) =>
        /\ err # "none"
        /\ steps = 0

\* C11: empty population.  A step on a model built with n_households = 0 and
\* n_firms = 0 ends in an error: it returns nothing, neither a four-tuple
\* nor an adoption_rate of any value.
EmptyPopulationFails ==
    (n_households = 0 /\ n_firms = 0 /\ op = "step") =>
        /\ err = "ZeroDivisionError"
        /\ result = NoResult

\* ClimateModel(0, 0) has been stepped
EmptyPopulationStepped ==
    /\ n_households = 0
    /\ n_firms = 0
    /\ Len(agents) = 0
    /\ steps = 1
    /\ err # "none"

\* C12: neighbor graph.  Once a model of N agents is constructed, the
\* neighbors of every agent are min(10, N - 1) distinct agents other than
\* itself, listed in non-decreasing distance, and no agent left out is
\* strictly nearer than one that is listed.
NeighborGraph ==
    (op = "init" /\ err = "none") =>
        \A i \in 1..Len(agents) :
            LET nb == agents[i].neighbors
                listed == {nb[k] : k \in 1..Len(nb)}
            IN  /\ Len(nb) = IF Len(agents) - 1 < 10 THEN Len(agents) - 1 ELSE 10
                /\ listed \subseteq (1..Len(agents)) \ {i}
                /\ Cardinality(listed) = Len(nb)
                /\ \A k, l \in 1..Len(nb) :
                       k < l => Dist2(agents[i], agents[nb[k]]) <= Dist2(agents[i], agents[nb[l]])
                /\ \A j \in (1..Len(agents)) \ (listed \cup {i}) :
                       \A k \in 1..Len(nb) :
                           Dist2(agents[i], agents[j]) >= Dist2(agents[i], agents[nb[k]])

\* a model of twelve agents or more: each has eleven others to choose from,
\* and lists ten
NeighborsCutToTen ==
    /\ op = "init"
    /\ err = "none"
    /\ Len(agents) >= 12
    /\ \A i \in 1..Len(agents) : Len(agents[i].neighbors) = 10

\* C13: neighbor ties.  Where two or more agents are at the same distance
\* from an agent, the construction of the neighbor lists completes without
\* an error, and tied agents are listed in creation order.
TiesInCreationOrder ==
    (op = "init" /\ \E i \in 1..Len(agents) : HasTie(agents, i)) =>
        /\ err = "none"
        /\ \A i \in 1..Len(agents) :
              \A k, l \in 1..Len(agents[i].neighbors) :
                  (k < l /\ Dist2(agents[i], agents[agents[i].neighbors[k]])
                             = Dist2(agents[i], agents[agents[i].neighbors[l]]))
                      => agents[i].neighbors[k] < agents[i].neighbors[l]

\* C17: no-op on an adopter.  A decide_adoption call on an agent that has
\* renewables returns False, leaves every field of the agent as it was and
\* makes no random draw: the count of draws made is the same after the call
\* as before it.
AdoptedCallIsNoOp ==
    [][\A k \in 1..Len(calls') :
          agents[calls'[k].agent].has_renewables =>
              /\ ~calls'[k].returned
              /\ ~calls'[k].drew
              /\ agents'[calls'[k].agent] = agents[calls'[k].agent]
              /\ ndraws' = ndraws
      ]_vars

\* an adopter has been called again, after a draw made for it and while
\* another agent is still to adopt: the draws made are the ones of before
AdopterCalledAgain ==
    /\ op = "decide_adoption"
    /\ err = "none"
    /\ agents[calls[1].agent].has_renewables
    /\ ~calls[1].drew
    /\ calls[1].changed = {}
    /\ ndraws >= 1
    /\ \E j \in 1..Len(agents) : ~agents[j].has_renewables

\* C18: frame.  A decide_adoption call changes no agent but the one called,
\* and of that one only has_renewables, energy_cost and annual_emissions:
\* over the steps of a run the population and every agent's id, type,
\* wealth, environmental_awareness, location and neighbors stay as
\* construction left them.
FrameOfAdoption ==
    [][/\ Len(agents') = Len(agents)
       /\ \A i \in 1..Len(agents) :
             /\ agents'[i].id = agents[i].id
             /\ agents'[i].type = agents[i].type
             /\ agents'[i].wealth = agents[i].wealth
             /\ agents'[i].environmental_awareness = agents[i].environmental_awareness
             /\ agents'[i].location = agents[i].location
             /\ agents'[i].neighbors = agents[i].neighbors
       /\ \A k \in 1..Len(calls') : calls'[k].changed \subseteq {calls'[k].agent}
      ]_vars

\* a step in which one agent adopted and a neighbor of it did not
AdoptionBesideNeighbor ==
    /\ op = "step"
    /\ \E k, j \in 1..Len(calls) :
          /\ j # k
          /\ calls[k].changed = {k}
          /\ calls[j].changed = {}
          /\ \E l \in 1..Len(agents[k].neighbors) : agents[k].neighbors[l] = j

\* C19: order within a step.  The agents are called in population order,
\* and the neighbor_adoption_rate of a call that gets to line 25 counts a
\* neighbor of lower index as the step leaves it (an adoption made earlier
\* in the same step included) and a neighbor of higher index as the step
\* found it.
SocialSignalInOrder ==
    [][\A k \in 1..Len(calls') :
          /\ calls'[k].agent = k
          /\ calls'[k].drew =>
                LET nb == agents[k].neighbors
                    seen == {l \in 1..Len(nb) :
                                IF nb[l] < k THEN agents'[nb[l]].has_renewables
                                             ELSE agents[nb[l]].has_renewables}
                IN  RatEq(calls'[k].neighbor_adoption_rate,
                          RatDiv(Rat(Dec(Cardinality(seen), 0)),
                                 Rat(Dec(IF Len(nb) > 1 THEN Len(nb) ELSE 1, 0))))
      ]_vars

\* a step in which an agent decided between two of its neighbors that both
\* adopted in the step: it saw the earlier one only, half of its neighbors
AdoptionSeenWithinStep ==
    /\ op = "step"
    /\ steps = 1
    /\ \E j, k, l \in 1..Len(calls) :
          /\ j < k
          /\ k < l
          /\ calls[j].returned
          /\ calls[l].returned
          /\ calls[k].drew
          /\ Len(agents[k].neighbors) = 2
          /\ RatEq(calls[k].neighbor_adoption_rate, RatDiv(Rat(One), Rat(Two)))

\* C14: one trial.  When run_monte_carlo_simulation has run with n_runs = 1,
\* the mean of each of the four series is, year by year, the series of the
\* one trial, and the standard deviation is 0 in every year.
SingleTrialStatistics ==
    (driver.pc = "done" /\ driver.n_runs = 1) =>
        \A y \in 1..(driver.years + 1) :
            /\ RatEq(driver.stats.temp_mean[y], driver.all_temperatures[1][y])
            /\ RatEq(driver.stats.adopt_mean[y], driver.all_adoption_rates[1][y])
            /\ RatEq(driver.stats.emis_mean[y], driver.all_emissions[1][y])
            /\ RatEq(driver.stats.price_mean[y], driver.all_carbon_prices[1][y])
            /\ DecSign(driver.stats.temp_std[y].sq.n) = 0
            /\ DecSign(driver.stats.adopt_std[y].sq.n) = 0
            /\ DecSign(driver.stats.emis_std[y].sq.n) = 0
            /\ DecSign(driver.stats.price_std[y].sq.n) = 0

\* one trial of two years or more in which an agent adopted: its series are
\* not constant
SingleTrialAggregated ==
    /\ driver.pc = "done"
    /\ driver.n_runs = 1
    /\ driver.years >= 2
    /\ RatLess(driver.all_temperatures[1][1], driver.all_temperatures[1][2])
    /\ RatLess(Rat(Zero), driver.all_adoption_rates[1][driver.years + 1])
    /\ RatLess(Rat(Zero), driver.stats.price_mean[driver.years + 1])

\* C15: clamped bands.  In every year the lower bound of the emissions band
\* is max(0, mean - 2 * std), never negative, and both bounds of the
\* adoption band are within [0, 1]; the series the driver returns are the
\* values the steps returned, appended, stacked and returned as they are.
ClampedBands ==
    /\ [](driver.pc = "done" =>
            /\ \A y \in 1..(driver.years + 1) :
                  LET raw == Below(driver.stats.emis_mean[y], driver.stats.emis_std[y])
                  IN  /\ ~RootLess(driver.bands.emissions[y].lo, Rat(Zero))
                      /\ driver.bands.emissions[y].lo =
                            IF RootLess(raw, Rat(Zero)) THEN Exactly(Rat(Zero)) ELSE raw
                      /\ ~RootLess(driver.bands.adoption[y].lo, Rat(Zero))
                      /\ ~RootGreater(driver.bands.adoption[y].lo, Rat(One))
                      /\ ~RootLess(driver.bands.adoption[y].hi, Rat(Zero))
                      /\ ~RootGreater(driver.bands.adoption[y].hi, Rat(One))
            /\ driver.returned.temperatures = driver.all_temperatures
            /\ driver.returned.adoption_rates = driver.all_adoption_rates
            /\ driver.returned.emissions = driver.all_emissions
            /\ driver.returned.carbon_prices = driver.all_carbon_prices)
    /\ [][/\ (driver.pc = "year" /\ driver'.pc = "year") =>
               /\ driver'.emissions = Append(driver.emissions, Rat(result'.total_emissions))
               /\ driver'.adoption_rates = Append(driver.adoption_rates, result'.adoption_rate)
               /\ driver'.temperatures = Append(driver.temperatures, Rat(result'.temperature))
               /\ driver'.carbon_prices = Append(driver.carbon_prices, Rat(carbon_price'))
          /\ (driver.pc = "year" /\ driver'.pc = "trial") =>
               /\ driver'.all_emissions = Append(driver.all_emissions, driver.emissions)
               /\ driver'.all_adoption_rates =
                      Append(driver.all_adoption_rates, driver.adoption_rates)
               /\ driver'.all_temperatures = Append(driver.all_temperatures, driver.temperatures)
               /\ driver'.all_carbon_prices =
                      Append(driver.all_carbon_prices, driver.carbon_prices)
         ]_vars

\* two trials, in one of which every agent adopted in the first year and in
\* the other none: mean - 2 * std of the emissions is negative and the band
\* starts at 0, mean + 2 * std of the adoption rate is above 1 and the band
\* ends at 1
BandsClamped ==
    /\ driver.pc = "done"
    /\ \E y \in 1..(driver.years + 1) :
          /\ RootLess(Below(driver.stats.emis_mean[y], driver.stats.emis_std[y]), Rat(Zero))
          /\ driver.bands.emissions[y].lo = Exactly(Rat(Zero))
          /\ RootGreater(Above(driver.stats.adopt_mean[y], driver.stats.adopt_std[y]),
                          Rat(One))
          /\ driver.bands.adoption[y].hi = Exactly(Rat(One))

\* C16: trial isolation.  At the start of every trial, whatever the trials
\* before it did, the model is a new one: temperature 1.0, cumulative
\* emissions 0, carbon price 0, year 2024, and no agent with renewables.
TrialIsolation ==
    (driver.pc = "year" /\ driver.year = 0) =>
        /\ temperature = One
        /\ cumulative_emissions = Zero
        /\ carbon_price = Zero
        /\ year = 2024
        /\ steps = 0
        /\ Len(agents) = DriverHouseholds + DriverFirms
        /\ \A i \in 1..Len(agents) :
              /\ ~agents[i].has_renewables
              /\ agents[i].annual_emissions = Dec(Baseline(agents[i].type), 0)

\* the start of a second trial, the first having ended warmer, priced and
\* with an adopter
SecondTrialStarted ==
    /\ driver.pc = "year"
    /\ driver.year = 0
    /\ driver.run = 1
    /\ driver.years >= 2
    /\ RatLess(Rat(Zero), driver.all_adoption_rates[1][driver.years + 1])
    /\ RatLess(Rat(One), driver.all_temperatures[1][driver.years + 1])
    /\ RatLess(Rat(Zero), driver.all_carbon_prices[1][driver.years + 1])

\* C20: surcharge of the step.  In every step of a trial the fossil_cost
\* every agent is called with is the driver's fossil_cost, 80, plus the
\* carbon_price of that step, and the driver's fossil_cost is 80 after the
\* step as before it.
SurchargeOfTheStep ==
    [][steps' = steps + 1 =>
          /\ driver.fossil_cost = Dec(80, 0)
          /\ driver'.fossil_cost = driver.fossil_cost
          /\ Len(calls') = Len(agents)
          /\ \A k \in 1..Len(calls') :
                calls'[k].fossil_cost = DecAdd(driver.fossil_cost, carbon_price')
      ]_vars

\* the third step of a trial, the second one having had a carbon price
ThirdYearSurcharged ==
    /\ driver.pc = "year"
    /\ driver.year = 3
    /\ op = "step"
    /\ RatLess(Rat(Zero), driver.carbon_prices[3])
    /\ RatLess(driver.carbon_prices[3], driver.carbon_prices[4])
    /\ Len(calls) >= 1
    /\ DecLess(Dec(80, 0), calls[1].fossil_cost)

\* the economic and the environmental signal of call c on agent a, and a
\* tenth of their sum with the social signal
EconomicSignal(c) ==
    RatDiv(Rat(DecAdd(DecSub(c.fossil_cost, c.renewable_cost), c.policy_incentive)),
           Rat(c.fossil_cost))

EnvironmentalSignal(a, c) ==
    RatMul(RatMul(Rat(a.environmental_awareness), Rat(c.global_temperature)),
           RatAdd(Rat(One),
                  RatDiv(Rat(DecMul(Dec(2000, 1), DecAbs(Dec(a.location[2], 0)))),
                         Rat(Dec(90, 0)))))

Combined(a, c, social) ==
    RatMul(Rat(Dec(1000, 1)), RatAdd(RatAdd(EconomicSignal(c), social), EnvironmentalSignal(a, c)))

\* wealth below the renewable cost and below two tenths of it
Unaffordable(a, c) ==
    /\ DecLess(a.wealth, c.renewable_cost)
    /\ DecLess(a.wealth, DecMul(Dec(2000, 1), c.renewable_cost))

\* C22: zero-neighbor guard.  A decide_adoption call on an agent without
\* renewables and without neighbors, given a fossil cost other than 0,
\* raises nothing, takes 0 for the neighbor adoption rate and compares its
\* draw with the probability that the economic and the environmental signal
\* give without a social signal.
ZeroNeighborGuard ==
    [][\A k \in 1..Len(calls') :
          LET c == calls'[k]
              a == agents[c.agent]
          IN  (Len(a.neighbors) = 0 /\ ~a.has_renewables /\ c.fossil_cost # Zero) =>
                  /\ err' = "none"
                  /\ c.drew
                  /\ c.neighbor_adoption_rate.n = Zero
                  /\ DecLess(Zero, c.neighbor_adoption_rate.d)
                  /\ RatEq(c.probability,
                           Clamp(IF Unaffordable(a, c)
                                 THEN RatMul(Rat(Dec(1000, 1)), Combined(a, c, Rat(Zero)))
                                 ELSE Combined(a, c, Rat(Zero))))
      ]_vars

\* the only agent of a model has been called and has adopted
LoneAgentDecided ==
    /\ op = "decide_adoption"
    /\ err = "none"
    /\ Len(agents) = 1
    /\ Len(agents[1].neighbors) = 0
    /\ calls[1].returned
    /\ RatLess(Rat(Zero), calls[1].probability)
    /\ RatLess(calls[1].probability, Rat(One))

\* C23: wealth gate.  Whether a decide_adoption call multiplies its
\* probability by 0.1 is settled by the agent's wealth and renewable_cost
\* alone, whatever fossil_cost, policy_incentive, global_temperature and the
\* neighbors are; with renewable_cost = 0 an agent of positive wealth is
\* never dampened.
WealthGateIndependence ==
    [][\A k \in 1..Len(calls') :
          LET c == calls'[k]
              a == agents[c.agent]
          IN  c.drew =>
                  \A combined \in {Combined(a, c, RatMul(Rat(Dec(3000, 1)),
                                                         c.neighbor_adoption_rate))} :
                      /\ \A dampened \in {IF Unaffordable(a, c)
                                           THEN RatMul(Rat(Dec(1000, 1)), combined)
                                           ELSE combined} :
                             RatEq(c.probability, Clamp(dampened))
                      /\ (c.renewable_cost = Zero /\ DecLess(Zero, a.wealth)) =>
                             RatEq(c.probability, Clamp(combined))
      ]_vars

\* a call on an agent too poor for a renewable_cost of 100, one of whose
\* neighbors has adopted: its probability is a tenth of what the signals give
DampenedBesideAdopter ==
    /\ op = "decide_adoption"
    /\ err = "none"
    /\ calls[1].drew
    /\ DecLess(agents[calls[1].agent].wealth, Dec(20, 0))
    /\ calls[1].renewable_cost = Dec(100, 0)
    /\ RatLess(Rat(Zero), calls[1].neighbor_adoption_rate)
    /\ RatLess(Rat(Zero), calls[1].probability)
    /\ RatLess(calls[1].probability, Rat(Dec(200, 1)))

\* C24: clamp before dampener.  The probability a call's draw is compared
\* with is within [0, 1]; for an agent under the affordability dampener it
\* is a tenth of the combined probability clamped to [0, 1], never above
\* 0.1.
ClampBeforeDampener ==
    op = "decide_adoption" =>
        \A k \in 1..Len(calls) :
            LET c == calls[k]
                a == agents[c.agent]
                combined == Combined(a, c, RatMul(Rat(Dec(3000, 1)), c.neighbor_adoption_rate))
            IN  c.drew =>
                    /\ RatLeq(Rat(Zero), c.probability)
                    /\ RatLeq(c.probability, Rat(One))
                    /\ Unaffordable(a, c) =>
                           /\ RatEq(c.probability, RatMul(Rat(Dec(1000, 1)), Clamp(combined)))
                           /\ RatLeq(c.probability, Rat(Dec(1000, 1)))

\* C21: policy incentive.  The policy_incentive every decide_adoption call of
\* a step is given is max(0, (temperature - 1.5) * 20) of the temperature the
\* model has when the step starts: 0 when that temperature is at most 1.5,
\* above 0 when it is above 1.5, and the same for all agents of the step.
IncentiveOfTheStep ==
    [][(op' = "step" /\ steps' = steps + 1) =>
          \A k \in 1..Len(calls') :
              LET incentive == calls'[k].policy_incentive
                  above == DecMul(DecSub(temperature, Dec(15000, 1)), Dec(20, 0))
              IN  /\ incentive = (IF DecLess(above, Zero) THEN Zero ELSE above)
                  /\ DecLeq(temperature, Dec(15000, 1)) => incentive = Zero
                  /\ DecLess(Dec(15000, 1), temperature) => DecLess(Zero, incentive)
                  /\ incentive = calls'[1].policy_incentive
      ]_vars

\* a step of more than one agent was given an incentive above 0, and one of
\* the agents adopted in it
IncentivePaid ==
    /\ op = "step"
    /\ err = "none"
    /\ Len(calls) >= 2
    /\ DecLess(Zero, calls[1].policy_incentive)
    /\ \E k \in 1..Len(calls) : calls[k].returned

\* the four series of the trial under way, and the tables of the trials kept
TrialSeries ==
    <<driver.temperatures, driver.adoption_rates, driver.emissions, driver.carbon_prices>>

TrialTables ==
    <<driver.all_temperatures, driver.all_adoption_rates, driver.all_emissions,
      driver.all_carbon_prices>>

\* C25: series of a trial.  While a trial runs, each of its four series has
\* one entry more than steps have been made: entry 0 is 1.0 for the
\* temperature and 0 for the adoption rate, the emissions and the carbon
\* price, and the last entry is what the last step produced.  A trial is kept
\* after exactly `years` steps, and every series of every trial kept has
\* years + 1 entries.
SeriesOfTheTrial ==
    /\ driver.pc = "year" =>
           /\ steps = driver.year
           /\ steps <= driver.years
           /\ \A s \in 1..4 : Len(TrialSeries[s]) = steps + 1
           /\ RatEq(driver.temperatures[1], Rat(One))
           /\ \A s \in 2..4 : RatEq(TrialSeries[s][1], Rat(Zero))
           /\ steps >= 1 =>
                  /\ driver.temperatures[steps + 1] = Rat(result.temperature)
                  /\ driver.adoption_rates[steps + 1] = result.adoption_rate
                  /\ driver.emissions[steps + 1] = Rat(result.total_emissions)
                  /\ driver.carbon_prices[steps + 1] = Rat(carbon_price)
    /\ driver.pc \in {"trial", "done"} =>
           /\ driver.run >= 1 => steps = driver.years
           /\ \A s \in 1..4 :
                  /\ Len(TrialTables[s]) = driver.run
                  /\ \A t \in 1..driver.run : Len(TrialTables[s][t]) = driver.years + 1

\* two trials of two years have been kept, with an adoption in the second
TwoTrialsKept ==
    /\ driver.pc = "trial"
    /\ driver.run = 2
    /\ driver.years = 2
    /\ RatLess(Rat(Zero), driver.all_adoption_rates[2][3])

\* C26: sampled parameters.  Whatever a trial's sampled parameters are, its
\* model is built from the same agents, and each of its steps is given the
\* learning curve of the sampled learning_rate on a base cost of 100, a
\* fossil cost of 80 plus a carbon price of base 30, weighs the neighbors
\* with 0.3 and warms by 1.5e-6 per unit emitted: of the seven parameters
\* only learning_rate enters the series.
OnlyLearningRateUsed ==
    [][/\ (driver.pc = "trial" /\ driver'.pc = "year") =>
             /\ agents' = Construct(DriverHouseholds, DriverFirms,
                                    TrialHouseholds, TrialFirms).agents
             /\ temperature' = One
             /\ carbon_price' = Zero
       /\ (driver.pc = "year" /\ steps' = steps + 1) =>
             /\ carbon_price' =
                   DecMul(DecMul(Dec(30, 0), DecMax(One, DecMul(temperature, temperature))),
                          DecMin(Dec(2, 0), DecMul(cumulative_emissions, Dec(100, 2))))
             /\ temperature' = DecAdd(One, DecMul(Dec(150, 2), cumulative_emissions'))
             /\ \A k \in 1..Len(calls') :
                   LET c == calls'[k]
                       a == agents[c.agent]
                   IN  /\ c.renewable_cost =
                             DecMul(Dec(100, 0),
                                    LearningFactor(Cardinality(Adopters(agents)) + 1,
                                                   driver.params.learning_rate))
                       /\ c.fossil_cost = DecAdd(Dec(80, 0), carbon_price')
                       /\ c.drew =>
                             \A combined \in {Combined(a, c, RatMul(Rat(Dec(3000, 1)),
                                                                    c.neighbor_adoption_rate))} :
                             \A dampened \in {IF Unaffordable(a, c)
                                              THEN RatMul(Rat(Dec(1000, 1)), combined)
                                              ELSE combined} :
                                 RatEq(c.probability, Clamp(dampened))
      ]_vars

\* a trial whose seven parameters were all sampled off their means has made
\* two steps, the second at a carbon price above 0
OffMeanTrialStepped ==
    /\ driver.pc = "year"
    /\ driver.params.temp_sensitivity = Dec(180, 2)
    /\ driver.params.base_carbon_price = Dec(36, 0)
    /\ driver.params.social_influence = Dec(3600, 1)
    /\ steps >= 2
    /\ DecLess(Zero, carbon_price)

AgentState ==
    /\ [](\A i \in 1..Len(agents) :
            IF agents[i].has_renewables
            THEN agents[i].annual_emissions =
                     DecMul(Dec(Baseline(agents[i].type), 0), Dec(1000, 1))
            ELSE /\ agents[i].energy_cost = Zero
                 /\ agents[i].annual_emissions = Dec(Baseline(agents[i].type), 0))
    /\ [][\A i \in 1..Len(agents) :
            /\ \A k \in 1..Len(calls') :
                  (calls'[k].agent = i /\ calls'[k].returned) =>
                      /\ agents'[i].has_renewables
                      /\ agents'[i].energy_cost =
                            DecMul(calls'[k].renewable_cost, Dec(1000, 1))
            /\ agents[i].has_renewables => agents'[i].energy_cost = agents[i].energy_cost
        ]_vars

\* one agent adopted in a step at a renewable_cost of 100 and another in a
\* step at a renewable_cost of 1
AdoptedAtTwoCosts ==
    /\ op = "step"
    /\ steps = 2
    /\ \E i, j \in 1..Len(agents) :
          /\ agents[i].has_renewables
          /\ agents[j].has_renewables
          /\ agents[i].energy_cost = Dec(10, 0)
          /\ agents[j].energy_cost = Dec(1000, 1)

\* C29: adoption accounting.  A step that returns has called decide_adoption
\* once for each agent, in population order; the new_adoptions it returns is
\* the number of agents that had no renewables before the step and have
\* them after it, and the number of agents with renewables after the step
\* is the number before it plus new_adoptions.
AdoptionAccounting ==
    [][(op' = "step" /\ steps' = steps + 1 /\ err' = "none") =>
          /\ Len(calls') = Len(agents)
          /\ \A k \in 1..Len(calls') : calls'[k].agent = k
          /\ result'.new_adoptions =
                Cardinality({i \in 1..Len(agents) :
                                ~agents[i].has_renewables /\ agents'[i].has_renewables})
          /\ Cardinality({i \in 1..Len(agents') : agents'[i].has_renewables}) =
                Cardinality({i \in 1..Len(agents) : agents[i].has_renewables})
                + result'.new_adoptions
      ]_vars

\* a second step that found one adopter and returned two new adoptions
TwoJoinedAnAdopter ==
    /\ op = "step"
    /\ err = "none"
    /\ steps = 2
    /\ result.new_adoptions = 2
    /\ Cardinality({i \in 1..Len(agents) : agents[i].has_renewables}) = 3

\* C30: emissions envelope.  The total_emissions a step returns is at most
\* the total_emissions the step before returned, at least a tenth of
\* 20 * n_households + 200 * n_firms and at most 20 * n_households +
\* 200 * n_firms.
EmissionsEnvelope ==
    [][(op' = "step" /\ steps' = steps + 1 /\ err' = "none") =>
          \A sum \in {Dec(20 * n_households + 200 * n_firms, 0)} :
              /\ steps >= 1 => DecLeq(result'.total_emissions, result.total_emissions)
              /\ DecLeq(DecMul(Dec(1000, 1), sum), result'.total_emissions)
              /\ DecLeq(result'.total_emissions, sum)
      ]_vars

====
